---- MODULE Spec2Model ----
(***************************************************************************)
(* Model of streamlit_conciliacao/conciliador.py: conciliar() reconciles a *)
(* bank statement (extrato) with an accounts-payable ledger (lancamentos)  *)
(* and emits double-entry posting lines grouped in batches (lotes); and of *)
(* streamlit_conciliacao/cadastro.py, the JSON registry of each company.   *)
(*                                                                         *)
(* Text is modelled as a tuple of one-character strings, so that parsing   *)
(* and formatting are computed character by character as the code does.    *)
(* A float is a record [ok, nan, c]: ok = FALSE stands for the ValueError  *)
(* raised by float(), nan for float("nan"), c for the value in cents.      *)
(* An Optional[int] account is <<>> (None) or <<n>>; the blank cell ""     *)
(* written by `debito or ""` is <<>> as well.                              *)
(***************************************************************************)
EXTENDS Integers, Sequences, FiniteSets, TLC

VARIABLES
    df_extrato,      \* input: statement table (rows Data, Historico, Valor)
    df_lancamentos,  \* input: ledger table, raw cells
    config,          \* input: company configuration (a dict, keys may be absent)
    conta_banco,     \* input: Optional[int] bank account argument
    pc,              \* position in conciliar: inicio, extrato, restantes, fim, erro
    erro,            \* "" | "valor" (parse failure) | "partidas" (unbalanced batch)
    lanc,            \* working copy of the ledger with derived columns and _matched
    i,               \* number of statement rows already iterated
    restantes,       \* ledger indices still to be posted as cash payments
    linhas,          \* the batch built by the last loop iteration
    ultimo,          \* which rows the batch in linhas was built from
    resultado,       \* accepted posting lines, in order
    lotes,           \* one descriptor per accepted batch (position in resultado)
    retorno,         \* the returned table: <<>> until returned, then <<resultado>>
    arquivos,        \* cadastro: contas.json of each company, <<>> while absent
    pastas,          \* cadastro: companies whose data directory exists
    default_atual,   \* cadastro: the module-level dict DEFAULT_CADASTRO, as it is now
    chamada,         \* cadastro: the last call made, with its arguments
    excecao,         \* cadastro: "" | "ValueError" | "KeyError" raised by that call
    devolvido,       \* cadastro: <<data>> returned by that call, <<>> if none
    chamadas         \* cadastro: number of calls made

vars_conciliar ==
    <<df_extrato, df_lancamentos, config, conta_banco, pc, erro, lanc, i,
      restantes, linhas, ultimo, resultado, lotes, retorno>>

vars_cadastro ==
    <<arquivos, pastas, default_atual, chamada, excecao, devolvido, chamadas>>

vars == <<vars_conciliar, vars_cadastro>>

-----------------------------------------------------------------------------
(* Accounting constants                                                    *)

CONTA_FORNECEDOR_PADRAO == 5

CONTA_CAIXA == 5

COD_HISTORICO_PAGAMENTO == 34

COD_HISTORICO_PAG_CAIXA == 1

TARIFA_PADRAO == 316

-----------------------------------------------------------------------------
(* Text helpers                                                            *)

Digits == <<"0", "1", "2", "3", "4", "5", "6", "7", "8", "9">>

IsDigit(ch) == \E d \in 1..10 : Digits[d] = ch

DigitVal(ch) == (CHOOSE d \in 1..10 : Digits[d] = ch) - 1

\* Python None and the text str() gives it
PyNone == <<"None">>

str(v) == IF v = PyNone THEN <<"N", "o", "n", "e">> ELSE v

RECURSIVE lstrip(_)
lstrip(s) == IF s # <<>> /\ Head(s) = " " THEN lstrip(Tail(s)) ELSE s

RECURSIVE rstrip(_)
rstrip(s) ==
    IF s # <<>> /\ s[Len(s)] = " " THEN rstrip(SubSeq(s, 1, Len(s) - 1)) ELSE s

strip(s) == rstrip(lstrip(s))

\* s.replace(ch, to) for a one-character pattern; to is a text
RECURSIVE replace(_, _, _)
replace(s, ch, to) ==
    IF s = <<>> THEN <<>>
    ELSE (IF Head(s) = ch THEN to ELSE <<Head(s)>>) \o replace(Tail(s), ch, to)

upper(ch) ==
    CASE ch = "d" -> "D"
      [] ch = "c" -> "C"
      [] ch = "n" -> "N"
      [] ch = "a" -> "A"
      [] ch = "o" -> "O"
      [] ch = "e" -> "E"
      [] OTHER -> ch

RECURSIVE upper_text(_)
upper_text(s) ==
    IF s = <<>> THEN <<>> ELSE <<upper(Head(s))>> \o upper_text(Tail(s))

RECURSIVE AllDigits(_)
AllDigits(s) == s = <<>> \/ (IsDigit(Head(s)) /\ AllDigits(Tail(s)))

RECURSIVE DigitsVal(_)
DigitsVal(s) ==
    IF s = <<>> THEN 0
    ELSE 10 * DigitsVal(SubSeq(s, 1, Len(s) - 1)) + DigitVal(s[Len(s)])

RECURSIVE IntText(_)
IntText(n) ==
    IF n < 10 THEN <<Digits[n + 1]>>
    ELSE IntText(n \div 10) \o <<Digits[(n % 10) + 1]>>

\* index of the first occurrence of ch in s, 0 if none
RECURSIVE find(_, _, _)
find(s, ch, k) ==
    IF k > Len(s) THEN 0 ELSE IF s[k] = ch THEN k ELSE find(s, ch, k + 1)

-----------------------------------------------------------------------------
(* Floats                                                                  *)

Num(c) == [ok |-> TRUE, nan |-> FALSE, c |-> c]

NaN == [ok |-> TRUE, nan |-> TRUE, c |-> 0]

ValueError == [ok |-> FALSE, nan |-> FALSE, c |-> 0]

\* float(t) for the texts of the model: an unsigned decimal with at most two
\* fraction digits, or "nan" in any case; anything else raises ValueError
float(t) ==
    LET p  == find(t, ".", 1)
        ip == IF p = 0 THEN t ELSE SubSeq(t, 1, p - 1)
        fp == IF p = 0 THEN <<>> ELSE SubSeq(t, p + 1, Len(t))
    IN  IF upper_text(t) = <<"N", "A", "N">> THEN NaN
        ELSE IF /\ AllDigits(ip) /\ AllDigits(fp)
                /\ Len(ip) + Len(fp) > 0 /\ Len(fp) <= 2
             THEN Num(100 * DigitsVal(ip)
                      + (IF Len(fp) = 1 THEN 10 * DigitsVal(fp) ELSE DigitsVal(fp)))
             ELSE ValueError

fadd(a, b) == IF a.nan \/ b.nan THEN NaN ELSE Num(a.c + b.c)

fsub(a, b) == IF a.nan \/ b.nan THEN NaN ELSE Num(a.c - b.c)

\* a == b and a > 0 on floats: every comparison with nan is False
feq(a, b) == ~a.nan /\ ~b.nan /\ a.c = b.c

gt0(a) == ~a.nan /\ a.c > 0

RECURSIVE fsum(_)
fsum(s) == IF s = <<>> THEN Num(0) ELSE fadd(Head(s), fsum(Tail(s)))

-----------------------------------------------------------------------------
(* Parsing and formatting                                                  *)

\* the suffix ignored: every row classified as a debit
parse_valor_extrato_sempre_D(valor) ==
    LET s == strip(str(valor))
    IN  IF s = <<>> THEN [num |-> ValueError, tipo |-> ""]
        ELSE [num  |-> float(replace(replace(SubSeq(s, 1, Len(s) - 1),
                                             ".", <<>>), ",", <<".">>)),
              tipo |-> "D"]

parse_valor_extrato(valor) ==
    LET s == strip(str(valor))
    IN  IF s = <<>> THEN [num |-> ValueError, tipo |-> ""]
        ELSE [num  |-> float(replace(replace(SubSeq(s, 1, Len(s) - 1),
                                             ".", <<>>), ",", <<".">>)),
              tipo |-> upper(s[Len(s)])]

parse_valor(valor) ==
    LET s == strip(str(valor))
    IN  IF s = <<>> THEN Num(0)
        ELSE float(replace(replace(s, ".", <<>>), ",", <<".">>))

fmt_valor(valor) ==
    IF valor.nan THEN <<"n", "a", "n">>
    ELSE IntText(valor.c \div 100)
         \o <<",", Digits[((valor.c % 100) \div 10) + 1], Digits[(valor.c % 10) + 1]>>

Pad2(s) == IF Len(s) = 1 THEN <<"0">> \o s ELSE s

\* day-first date text d/m/yyyy rendered as dd/mm/yyyy
fmt_data(data) ==
    LET p1 == find(data, "/", 1)
        p2 == find(data, "/", p1 + 1)
    IN  Pad2(SubSeq(data, 1, p1 - 1)) \o <<"/">>
        \o Pad2(SubSeq(data, p1 + 1, p2 - 1)) \o <<"/">>
        \o SubSeq(data, p2 + 1, Len(data))

\* next(iter(contas.values()), 0); the dict is a sequence of <<name, code>>
get_primeira_conta(contas) == IF contas = <<>> THEN 0 ELSE contas[1][2]

RECURSIVE clean_nota(_)
clean_nota(nota) ==
    IF nota = <<>> THEN <<>>
    ELSE (IF IsDigit(Head(nota)) THEN <<Head(nota)>> ELSE <<>>)
         \o clean_nota(Tail(nota))

-----------------------------------------------------------------------------
(* Posting lines                                                           *)

\* x or "": None and the account code 0 both leave the cell blank
ou_vazio(x) == IF x = <<>> \/ x[1] = 0 THEN <<>> ELSE x

adicionar_linha(rows, data, valor, hist, complemento, tipo, debito, credito) ==
    Append(rows,
           [Data        |-> data,
            Debito      |-> ou_vazio(debito),
            Credito     |-> ou_vazio(credito),
            Valor       |-> fmt_valor(valor),
            Historico   |-> hist,
            Complemento |-> complemento,
            IniciaLote  |-> "",
            tipo        |-> tipo])

\* only a batch of several lines flagged
marca_lote_composto(rows) ==
    IF Len(rows) > 1 THEN [rows EXCEPT ![1].IniciaLote = "1"] ELSE rows

marca_lote(rows) ==
    IF rows # <<>> THEN [rows EXCEPT ![1].IniciaLote = "1"] ELSE rows

RECURSIVE valores_com(_, _)
valores_com(rows, lado) ==
    IF rows = <<>> THEN <<>>
    ELSE (IF Head(rows)[lado] # <<>> THEN <<parse_valor(Head(rows).Valor)>>
          ELSE <<>>)
         \o valores_com(Tail(rows), lado)

\* the check left out
balance_check_ausente(rows) == TRUE

\* a difference of up to 5,00 let through
balance_check_tolerancia(rows) ==
    LET total_deb  == fsum(valores_com(rows, "Debito"))
        total_cred == fsum(valores_com(rows, "Credito"))
        dif        == fsub(total_deb, total_cred)
    IN  ~dif.nan /\ dif.c >= -500 /\ dif.c <= 500

\* TRUE when the check passes, FALSE when it raises "Partidas nao fecham"
balance_check(rows) ==
    LET total_deb  == fsum(valores_com(rows, "Debito"))
        total_cred == fsum(valores_com(rows, "Credito"))
        dif        == fsub(total_deb, total_cred)
    IN  ~dif.nan /\ dif.c = 0

-----------------------------------------------------------------------------
(* Configuration                                                           *)

\* the empty dict {}
dict_vazio == [k \in {} |-> 0]

config_get(d, chave, padrao) == IF chave \in DOMAIN d THEN d[chave] ELSE padrao

truthy(opt) == opt # <<>> /\ opt[1] # 0

contas(cfg, cb) ==
    [banco    |-> IF truthy(cb) THEN cb[1]
                  ELSE get_primeira_conta(config_get(cfg, "contas_pagamento", <<>>)),
     multa    |-> config_get(cfg, "multas_juros", 0),
     desconto |-> config_get(cfg, "descontos", 0),
     tarifa   |-> config_get(cfg, "tarifas", TARIFA_PADRAO)]

conta_fornecedor(cfg, fornecedor) ==
    LET forn == config_get(cfg, "fornecedores", dict_vazio)
    IN  IF fornecedor \in DOMAIN forn THEN forn[fornecedor]
        ELSE CONTA_FORNECEDOR_PADRAO

texto_complemento(row) == strip(clean_nota(str(row.NotaFiscal)) \o <<" ">> \o row.Fornecedor)

tem_extras(row) == gt0(row.multa) \/ gt0(row.desconto) \/ gt0(row.tarifa)

-----------------------------------------------------------------------------
(* The three posting templates (before marca_lote and balance_check)       *)

\* the simple line posted for the gross invoice amount
lancamento_banco_nota(row, data, valor, ctas, cfg) ==
    LET forn  == <<conta_fornecedor(cfg, row.Fornecedor)>>
        compl == texto_complemento(row)
        h     == COD_HISTORICO_PAGAMENTO
        l1 == adicionar_linha(<<>>, data, row.valor_nota, h, compl, "Banco", forn, <<>>)
        l2 == IF gt0(row.multa)
              THEN adicionar_linha(l1, data, row.multa, h, compl, "Banco",
                                   <<ctas.multa>>, <<>>)
              ELSE l1
        l3 == IF gt0(row.tarifa)
              THEN adicionar_linha(l2, data, row.tarifa, h, compl, "Banco",
                                   <<ctas.tarifa>>, <<>>)
              ELSE l2
        l4 == IF gt0(row.desconto)
              THEN adicionar_linha(l3, data, row.desconto, h, compl, "Banco",
                                   <<>>, <<ctas.desconto>>)
              ELSE l3
    IN  IF ~tem_extras(row)
        THEN adicionar_linha(<<>>, data, row.valor_nota, h, compl, "Banco",
                             forn, <<ctas.banco>>)
        ELSE adicionar_linha(l4, data, valor, h, compl, "Banco", <<>>, <<ctas.banco>>)

\* the composite batch closed with payable + fee, as the cash template does
lancamento_banco_pagar_tarifa(row, data, valor, ctas, cfg) ==
    LET forn  == <<conta_fornecedor(cfg, row.Fornecedor)>>
        compl == texto_complemento(row)
        h     == COD_HISTORICO_PAGAMENTO
        l1 == adicionar_linha(<<>>, data, row.valor_nota, h, compl, "Banco", forn, <<>>)
        l2 == IF gt0(row.multa)
              THEN adicionar_linha(l1, data, row.multa, h, compl, "Banco",
                                   <<ctas.multa>>, <<>>)
              ELSE l1
        l3 == IF gt0(row.tarifa)
              THEN adicionar_linha(l2, data, row.tarifa, h, compl, "Banco",
                                   <<ctas.tarifa>>, <<>>)
              ELSE l2
        l4 == IF gt0(row.desconto)
              THEN adicionar_linha(l3, data, row.desconto, h, compl, "Banco",
                                   <<>>, <<ctas.desconto>>)
              ELSE l3
    IN  IF ~tem_extras(row)
        THEN adicionar_linha(<<>>, data, row.valor_pagar, h, compl, "Banco",
                             forn, <<ctas.banco>>)
        ELSE adicionar_linha(l4, data, fadd(row.valor_pagar, row.tarifa), h, compl,
                             "Banco", <<>>, <<ctas.banco>>)

\* 1.a) statement debit matched with ledger row `row`
lancamento_banco(row, data, valor, ctas, cfg) ==
    LET forn  == <<conta_fornecedor(cfg, row.Fornecedor)>>
        compl == texto_complemento(row)
        h     == COD_HISTORICO_PAGAMENTO
        l1 == adicionar_linha(<<>>, data, row.valor_nota, h, compl, "Banco", forn, <<>>)
        l2 == IF gt0(row.multa)
              THEN adicionar_linha(l1, data, row.multa, h, compl, "Banco",
                                   <<ctas.multa>>, <<>>)
              ELSE l1
        l3 == IF gt0(row.tarifa)
              THEN adicionar_linha(l2, data, row.tarifa, h, compl, "Banco",
                                   <<ctas.tarifa>>, <<>>)
              ELSE l2
        l4 == IF gt0(row.desconto)
              THEN adicionar_linha(l3, data, row.desconto, h, compl, "Banco",
                                   <<>>, <<ctas.desconto>>)
              ELSE l3
    IN  IF ~tem_extras(row)
        THEN adicionar_linha(<<>>, data, row.valor_pagar, h, compl, "Banco",
                             forn, <<ctas.banco>>)
        ELSE adicionar_linha(l4, data, valor, h, compl, "Banco", <<>>, <<ctas.banco>>)

\* 1.b) statement debit without ledger counterpart
lancamento_extrato(data, valor, ctas) ==
    adicionar_linha(<<>>, data, valor, COD_HISTORICO_PAGAMENTO, <<>>, "Extrato",
                    <<CONTA_FORNECEDOR_PADRAO>>, <<ctas.banco>>)

\* the composite batch closed with the payable amount alone
lancamento_caixa_sem_tarifa(row, ctas, cfg) ==
    LET forn  == <<conta_fornecedor(cfg, row.Fornecedor)>>
        compl == texto_complemento(row)
        data  == row.data
        h     == COD_HISTORICO_PAGAMENTO
        hc    == COD_HISTORICO_PAG_CAIXA
        l1 == adicionar_linha(<<>>, data, row.valor_nota, hc, compl, "Caixa", forn, <<>>)
        l2 == IF gt0(row.multa)
              THEN adicionar_linha(l1, data, row.multa, h, compl, "Caixa",
                                   <<ctas.multa>>, <<>>)
              ELSE l1
        l3 == IF gt0(row.tarifa)
              THEN adicionar_linha(l2, data, row.tarifa, h, compl, "Caixa",
                                   <<ctas.tarifa>>, <<>>)
              ELSE l2
        l4 == IF gt0(row.desconto)
              THEN adicionar_linha(l3, data, row.desconto, h, compl, "Caixa",
                                   <<>>, <<ctas.desconto>>)
              ELSE l3
    IN  IF ~tem_extras(row)
        THEN adicionar_linha(<<>>, data, row.valor_pagar, hc, compl, "Caixa",
                             forn, <<CONTA_CAIXA>>)
        ELSE adicionar_linha(l4, data, row.valor_pagar, hc, compl,
                             "Caixa", <<>>, <<CONTA_CAIXA>>)

\* 2) ledger row without statement counterpart: cash payment
lancamento_caixa(row, ctas, cfg) ==
    LET forn  == <<conta_fornecedor(cfg, row.Fornecedor)>>
        compl == texto_complemento(row)
        data  == row.data
        h     == COD_HISTORICO_PAGAMENTO
        hc    == COD_HISTORICO_PAG_CAIXA
        l1 == adicionar_linha(<<>>, data, row.valor_nota, hc, compl, "Caixa", forn, <<>>)
        l2 == IF gt0(row.multa)
              THEN adicionar_linha(l1, data, row.multa, h, compl, "Caixa",
                                   <<ctas.multa>>, <<>>)
              ELSE l1
        l3 == IF gt0(row.tarifa)
              THEN adicionar_linha(l2, data, row.tarifa, h, compl, "Caixa",
                                   <<ctas.tarifa>>, <<>>)
              ELSE l2
        l4 == IF gt0(row.desconto)
              THEN adicionar_linha(l3, data, row.desconto, h, compl, "Caixa",
                                   <<>>, <<ctas.desconto>>)
              ELSE l3
    IN  IF ~tem_extras(row)
        THEN adicionar_linha(<<>>, data, row.valor_pagar, hc, compl, "Caixa",
                             forn, <<CONTA_CAIXA>>)
        ELSE adicionar_linha(l4, data, fadd(row.valor_pagar, row.tarifa), hc, compl,
                             "Caixa", <<>>, <<CONTA_CAIXA>>)

-----------------------------------------------------------------------------
(* conciliar, one loop iteration at a time.  R is the record of the run's  *)
(* working state; each operator returns the state after its step.          *)

SemLote == [origem |-> "", ext |-> 0, lanc |-> 0]

estado_inicial ==
    [pc |-> "inicio", erro |-> "", lanc |-> <<>>, i |-> 0, restantes |-> <<>>,
     linhas |-> <<>>, ultimo |-> SemLote, resultado |-> <<>>, lotes |-> <<>>,
     retorno |-> <<>>]

falha(R, motivo) == [R EXCEPT !.pc = "erro", !.erro = motivo]

\* the derived columns of one ledger row
linha_lanc(raw) ==
    [DataPagamento |-> raw.DataPagamento, Fornecedor |-> raw.Fornecedor,
     NotaFiscal    |-> raw.NotaFiscal,
     valor_nota    |-> parse_valor(raw.Valor),
     valor_pagar   |-> parse_valor(raw.ValorPagar),
     multa         |-> parse_valor(raw.MultaJuros),
     desconto      |-> parse_valor(raw.Descontos),
     tarifa        |-> parse_valor(raw.Tarifas),
     data          |-> fmt_data(raw.DataPagamento),
     matched       |-> FALSE]

linha_ok(r) ==
    r.valor_nota.ok /\ r.valor_pagar.ok /\ r.multa.ok /\ r.desconto.ok /\ r.tarifa.ok

preprocessa(R, lancs) ==
    LET copia == [k \in 1..Len(lancs) |-> linha_lanc(lancs[k])]
    IN  IF \E k \in 1..Len(lancs) : ~linha_ok(copia[k])
        THEN falha(R, "valor")
        ELSE [R EXCEPT !.pc = "extrato", !.lanc = copia]

\* an unbalanced batch dropped and the run continued instead of raising
fecha_lote_tolerante(R, novas, desc) ==
    LET marcadas == marca_lote(novas)
        S == [R EXCEPT !.linhas = marcadas, !.ultimo = desc]
    IN  IF ~balance_check(marcadas) THEN S
        ELSE [S EXCEPT !.resultado = R.resultado \o marcadas,
                       !.lotes = Append(R.lotes,
                                        [origem |-> desc.origem, ext |-> desc.ext,
                                         lanc |-> desc.lanc,
                                         ini |-> Len(R.resultado) + 1,
                                         n |-> Len(marcadas)])]

\* _marca_lote, _balance_check and resultado.extend for the batch just built
fecha_lote(R, novas, desc) ==
    LET marcadas == marca_lote(novas)
        S == [R EXCEPT !.linhas = marcadas, !.ultimo = desc]
    IN  IF ~balance_check(marcadas) THEN falha(S, "partidas")
        ELSE [S EXCEPT !.resultado = R.resultado \o marcadas,
                       !.lotes = Append(R.lotes,
                                        [origem |-> desc.origem, ext |-> desc.ext,
                                         lanc |-> desc.lanc,
                                         ini |-> Len(R.resultado) + 1,
                                         n |-> Len(marcadas)])]

\* the filter without `& ~_matched`
RECURSIVE possiveis_sem_flag(_, _, _, _)
possiveis_sem_flag(tab, data, valor, k) ==
    IF k > Len(tab) THEN <<>>
    ELSE (IF tab[k].data = data /\ feq(tab[k].valor_pagar, valor)
          THEN <<k>> ELSE <<>>)
         \o possiveis_sem_flag(tab, data, valor, k + 1)

\* the candidates in reverse ledger order, so that index[0] is the last one
RECURSIVE possiveis_invertido(_, _, _, _)
possiveis_invertido(tab, data, valor, k) ==
    IF k > Len(tab) THEN <<>>
    ELSE possiveis_invertido(tab, data, valor, k + 1)
         \o (IF tab[k].data = data /\ feq(tab[k].valor_pagar, valor) /\ ~tab[k].matched
             THEN <<k>> ELSE <<>>)

\* lanc[(_data == data) & (_valor_pagar == valor) & ~_matched].index, from k on
RECURSIVE possiveis(_, _, _, _)
possiveis(tab, data, valor, k) ==
    IF k > Len(tab) THEN <<>>
    ELSE (IF tab[k].data = data /\ feq(tab[k].valor_pagar, valor) /\ ~tab[k].matched
          THEN <<k>> ELSE <<>>)
         \o possiveis(tab, data, valor, k + 1)

passo_extrato(R, extrato, cfg, cb) ==
    LET ext   == extrato[R.i + 1]
        pv    == parse_valor_extrato(ext.Valor)
        valor == pv.num
        data  == fmt_data(ext.Data)
        ctas  == contas(cfg, cb)
        cand  == possiveis(R.lanc, data, valor, 1)
        idx   == cand[1]
        row   == R.lanc[idx]
        S     == [R EXCEPT !.i = R.i + 1]
    IN  IF ~valor.ok THEN falha(R, "valor")
        ELSE IF pv.tipo # "D" THEN S
        ELSE IF cand # <<>>
        THEN fecha_lote([S EXCEPT !.lanc[idx].matched = TRUE],
                        lancamento_banco(row, data, valor, ctas, cfg),
                        [origem |-> "Banco", ext |-> R.i + 1, lanc |-> idx])
        ELSE fecha_lote(S, lancamento_extrato(data, valor, ctas),
                        [origem |-> "Extrato", ext |-> R.i + 1, lanc |-> 0])

\* the rows still unmatched, last ledger row first
RECURSIVE nao_casados_invertido(_, _)
nao_casados_invertido(tab, k) ==
    IF k > Len(tab) THEN <<>>
    ELSE nao_casados_invertido(tab, k + 1)
         \o (IF ~tab[k].matched THEN <<k>> ELSE <<>>)

\* every ledger row, matched or not
RECURSIVE nao_casados_todos(_, _)
nao_casados_todos(tab, k) ==
    IF k > Len(tab) THEN <<>> ELSE <<k>> \o nao_casados_todos(tab, k + 1)

\* restantes = lanc[~lanc["_matched"]]
RECURSIVE nao_casados(_, _)
nao_casados(tab, k) ==
    IF k > Len(tab) THEN <<>>
    ELSE (IF ~tab[k].matched THEN <<k>> ELSE <<>>) \o nao_casados(tab, k + 1)

fim_extrato(R) ==
    [R EXCEPT !.pc = "restantes", !.restantes = nao_casados(R.lanc, 1)]

passo_restante(R, cfg, cb) ==
    LET idx == Head(R.restantes)
    IN  fecha_lote([R EXCEPT !.restantes = Tail(R.restantes)],
                   lancamento_caixa(R.lanc[idx], contas(cfg, cb), cfg),
                   [origem |-> "Caixa", ext |-> 0, lanc |-> idx])

retorna(R) == [R EXCEPT !.pc = "fim", !.retorno = <<R.resultado>>]

\* the whole call: the state in which conciliar returns or raises
RECURSIVE executa(_, _, _, _, _)
executa(R, extrato, lancs, cfg, cb) ==
    CASE R.pc = "inicio" -> executa(preprocessa(R, lancs), extrato, lancs, cfg, cb)
      [] R.pc = "extrato" ->
            executa(IF R.i < Len(extrato) THEN passo_extrato(R, extrato, cfg, cb)
                    ELSE fim_extrato(R),
                    extrato, lancs, cfg, cb)
      [] R.pc = "restantes" ->
            executa(IF R.restantes # <<>> THEN passo_restante(R, cfg, cb)
                    ELSE retorna(R),
                    extrato, lancs, cfg, cb)
      [] OTHER -> R

\* what the caller observes: the table, or the error raised
conciliar(extrato, lancs, cfg, cb) ==
    LET F == executa(estado_inicial, extrato, lancs, cfg, cb)
    IN  [erro |-> F.erro, tabela |-> F.retorno]

-----------------------------------------------------------------------------
(* Inputs                                                                  *)

\* largest statement and ledger tables of the matching inputs
MaxExtrato == 2

MaxLanc == 2

\* the texts of the input cells
ACME == <<"A", "C", "M", "E">>

XYZ == <<"X", "Y", "Z">>

Dia1 == <<"0", "1", "/", "0", "1", "/", "2", "0", "2", "4">>

Dia1Curto == <<"1", "/", "1", "/", "2", "0", "2", "4">>

Dia2 == <<"0", "2", "/", "0", "1", "/", "2", "0", "2", "4">>

PAG == <<"P", "A", "G">>

NF123 == <<"N", "F", "-", "1", "2", "3">>

SN == <<"S", "/", "N">>

V0 == <<"0", ",", "0", "0">>

V2 == <<"2", ",", "0", "0">>

V5 == <<"5", ",", "0", "0">>

V10 == <<"1", "0", ",", "0", "0">>

V75 == <<"7", "5", ",", "0", "0">>

V77 == <<"7", "7", ",", "0", "0">>

V80 == <<"8", "0", ",", "0", "0">>

V100 == <<"1", "0", "0", ",", "0", "0">>

V1000 == <<"1", "0", "0", "0", ",", "0", "0">>

TextoNaN == <<"n", "a", "n">>

E75D == <<"7", "5", ",", "0", "0", "D">>

E100D == <<"1", "0", "0", ",", "0", "0", "D">>

E1000d == <<"1", ".", "0", "0", "0", ",", "0", "0", "d">>

E75C == <<"7", "5", ",", "0", "0", "C">>

E100C == <<"1", "0", "0", ",", "0", "0", "C">>

ExD == <<"x", "D">>

\* the configuration of tests/test_conciliador.py: no "tarifas" key
CfgTeste ==
    ("fornecedores" :> (ACME :> 10)) @@ ("contas_pagamento" :> <<<<"Banco", 7>>>>)
    @@ ("multas_juros" :> 50) @@ ("descontos" :> 60)

\* every key present
CfgCompleto ==
    ("fornecedores" :> (ACME :> 10 @@ XYZ :> 11))
    @@ ("contas_pagamento" :> <<<<"Banco", 7>>, <<"Outro", 9>>>>)
    @@ ("multas_juros" :> 50) @@ ("descontos" :> 60) @@ ("tarifas" :> 70)

\* cadastro.DEFAULT_CADASTRO, the registry of a company nothing was added to
CfgPadrao ==
    ("fornecedores" :> dict_vazio) @@ ("contas_pagamento" :> <<>>)
    @@ ("multas_juros" :> 0) @@ ("tarifas" :> 0) @@ ("descontos" :> 0)

\* the empty dict: every key absent
CfgVazio == dict_vazio

SeqsAte(S, n) == UNION {[1..k -> S] : k \in 0..n}

\* Matching inputs: up to MaxExtrato statement rows and MaxLanc ledger rows
\* that differ in date and amount, under the configuration of the tests; a
\* ledger row is either simple or the composite 80,00 - 10,00 + 5,00 = 75,00.
ExtratoCasamento ==
    [Data : {Dia1Curto, Dia2}, Historico : {PAG}, Valor : {E75D, E100D}]
    \cup
    [Data : {Dia1Curto}, Historico : {PAG}, Valor : {E75C}]

LancCasamento ==
    [DataPagamento : {Dia1, Dia2}, Fornecedor : {ACME}, NotaFiscal : {NF123},
     Valor : {V100}, Descontos : {V0}, MultaJuros : {V0}, ValorPagar : {V100},
     Tarifas : {V0}]
    \cup
    [DataPagamento : {Dia1}, Fornecedor : {ACME}, NotaFiscal : {NF123},
     Valor : {V80}, Descontos : {V10}, MultaJuros : {V5}, ValorPagar : {V75},
     Tarifas : {V0}]

InitCasamento ==
    /\ df_extrato \in SeqsAte(ExtratoCasamento, MaxExtrato)
    /\ df_lancamentos \in SeqsAte(LancCasamento, MaxLanc)
    /\ config = CfgTeste
    /\ conta_banco = <<>>

\* Posting inputs: one ledger row whose amounts, extras, supplier and blank
\* cells vary freely, at most one statement row, every configuration.
ExtratoPartidas ==
    [Data : {Dia1Curto}, Historico : {PAG},
     Valor : {E75D, E100D, E1000d, E100C, ExD}]

CelulasPartidas(fornecedor, nota) ==
    [DataPagamento : {Dia1}, Fornecedor : {fornecedor}, NotaFiscal : {nota},
     Valor : {V80, V100},
     Descontos : {V0, V10, <<>>},
     MultaJuros : {V0, V5, TextoNaN},
     ValorPagar : {V75, V100, V1000},
     Tarifas : {V0, V2, PyNone}]

LancPartidas == CelulasPartidas(ACME, NF123) \cup CelulasPartidas(XYZ, SN)

InitPartidas ==
    /\ df_extrato \in SeqsAte(ExtratoPartidas, 1)
    /\ df_lancamentos \in [1..1 -> LancPartidas]
    /\ \E par \in {<<CfgTeste, <<>>>>, <<CfgCompleto, <<>>>>, <<CfgPadrao, <<>>>>,
                    <<CfgVazio, <<>>>>, <<CfgPadrao, <<8>>>>} :
          config = par[1] /\ conta_banco = par[2]

-----------------------------------------------------------------------------
(* cadastro.py: the registry of each company is the file contas.json of    *)
(* its directory.  W is the record of the file system and of the module's  *)
(* global DEFAULT_CADASTRO; each operator returns W after the call.        *)

DEFAULT_CADASTRO ==
    ("fornecedores" :> dict_vazio) @@ ("contas_pagamento" :> <<>>)
    @@ ("multas_juros" :> 0) @@ ("tarifas" :> 0) @@ ("descontos" :> 0)

VALID_CATEGORIAS == {"fornecedores", "contas_pagamento"}

VALID_CAMPOS_ESPECIAIS == {"multas_juros", "tarifas", "descontos"}

\* path.mkdir(parents=True, exist_ok=True)
get_empresa_path(W, cnpj) == [W EXCEPT !.pastas = @ \cup {cnpj}]

\* json.dump to contas.tmp, then replace contas.json
save_cadastros(W, cnpj, data) ==
    [get_empresa_path(W, cnpj) EXCEPT !.arquivos[cnpj] = <<data>>]

\* data is the dict returned; raso tells that it is DEFAULT_CADASTRO.copy(),
\* whose two inner dicts are the very objects of DEFAULT_CADASTRO, whereas
\* json.load builds new ones
load_cadastros(W, cnpj) ==
    LET P == get_empresa_path(W, cnpj)
    IN  IF P.arquivos[cnpj] = <<>>
        THEN [W    |-> save_cadastros(P, cnpj, P.padrao),
              data |-> P.padrao, raso |-> TRUE]
        ELSE [W |-> P, data |-> P.arquivos[cnpj][1], raso |-> FALSE]

validar_categoria(categoria) == categoria \in VALID_CATEGORIAS

\* the inner dicts: fornecedores a function, contas_pagamento a sequence of
\* <<name, code>> in insertion order
item_tem(categoria, d, chave) ==
    IF categoria = "contas_pagamento" THEN \E k \in 1..Len(d) : d[k][1] = chave
    ELSE chave \in DOMAIN d

item_set(categoria, d, chave, valor) ==
    IF categoria = "contas_pagamento"
    THEN IF \E k \in 1..Len(d) : d[k][1] = chave
         THEN [k \in 1..Len(d) |-> IF d[k][1] = chave THEN <<chave, valor>> ELSE d[k]]
         ELSE Append(d, <<chave, valor>>)
    ELSE [x \in DOMAIN d \cup {chave} |-> IF x = chave THEN valor ELSE d[x]]

item_del(categoria, d, chave) ==
    IF categoria = "contas_pagamento"
    THEN SelectSeq(d, LAMBDA par : par[1] # chave)
    ELSE [x \in DOMAIN d \ {chave} |-> d[x]]

\* data[categoria] changed in place to d, then save_cadastros: the change
\* reaches DEFAULT_CADASTRO when data shares its inner dicts
grava_categoria(L, cnpj, categoria, d) ==
    save_cadastros(IF L.raso THEN [L.W EXCEPT !.padrao[categoria] = d] ELSE L.W,
                   cnpj, [L.data EXCEPT ![categoria] = d])

\* the registry loaded before the category is validated
add_item_valida_depois(W, cnpj, categoria, chave, valor) ==
    LET L == load_cadastros(W, cnpj)
    IN  IF ~validar_categoria(categoria) THEN [L.W EXCEPT !.excecao = "ValueError"]
        ELSE grava_categoria(L, cnpj, categoria,
                             item_set(categoria, L.data[categoria], chave, valor))

add_item(W, cnpj, categoria, chave, valor) ==
    IF ~validar_categoria(categoria) THEN [W EXCEPT !.excecao = "ValueError"]
    ELSE LET L == load_cadastros(W, cnpj)
         IN  grava_categoria(L, cnpj, categoria,
                             item_set(categoria, L.data[categoria], chave, valor))

edit_item(W, cnpj, categoria, chave, novo_valor) ==
    IF ~validar_categoria(categoria) THEN [W EXCEPT !.excecao = "ValueError"]
    ELSE LET L == load_cadastros(W, cnpj)
         IN  IF ~item_tem(categoria, L.data[categoria], chave)
             THEN [L.W EXCEPT !.excecao = "KeyError"]
             ELSE grava_categoria(L, cnpj, categoria,
                                  item_set(categoria, L.data[categoria], chave,
                                           novo_valor))

delete_item(W, cnpj, categoria, chave) ==
    IF ~validar_categoria(categoria) THEN [W EXCEPT !.excecao = "ValueError"]
    ELSE LET L == load_cadastros(W, cnpj)
         IN  IF ~item_tem(categoria, L.data[categoria], chave)
             THEN [L.W EXCEPT !.excecao = "KeyError"]
             ELSE grava_categoria(L, cnpj, categoria,
                                  item_del(categoria, L.data[categoria], chave))

\* data[campo] = codigo sets a key of the copy itself, not of an inner dict
set_conta_especial(W, cnpj, campo, codigo) ==
    IF campo \notin VALID_CAMPOS_ESPECIAIS THEN [W EXCEPT !.excecao = "ValueError"]
    ELSE LET L == load_cadastros(W, cnpj)
         IN  save_cadastros(L.W, cnpj, [L.data EXCEPT ![campo] = codigo])

\* a call of load_cadastros by the application
carrega(W, cnpj) ==
    LET L == load_cadastros(W, cnpj) IN [L.W EXCEPT !.devolvido = <<L.data>>]

\* the credit of tests/test_conciliador.py::test_entrada_cliente: a statement
\* row with suffix C whose text is a client of the configuration, no ledger
PIX == <<"P", "I", "X">>

E50C == <<"5", "0", ",", "0", "0", "C">>

CfgCliente == ("contas_pagamento" :> <<<<"Banco", 7>>>>) @@ ("clientes" :> (PIX :> 5))

InitCliente ==
    /\ df_extrato \in SeqsAte([Data : {Dia2}, Historico : {PIX}, Valor : {E50C}], 1)
    /\ df_lancamentos = <<>>
    /\ config = CfgCliente
    /\ conta_banco = <<>>

\* the calls made to the registry
MaxChamadas == 3

Empresas == {"111", "222"}

CategoriasChamadas == VALID_CATEGORIAS \cup {"invalida"}

CamposChamados == VALID_CAMPOS_ESPECIAIS \cup {"foo"}

ChavesChamadas == {ACME}

CodigosChamados == {10, 20}

SemChamada == [op |-> "", cnpj |-> "", nome |-> "", chave |-> <<>>, valor |-> 0]

-----------------------------------------------------------------------------
(* The state machine                                                       *)

Atual ==
    [pc |-> pc, erro |-> erro, lanc |-> lanc, i |-> i, restantes |-> restantes,
     linhas |-> linhas, ultimo |-> ultimo, resultado |-> resultado,
     lotes |-> lotes, retorno |-> retorno]

Passa(R) ==
    /\ pc' = R.pc /\ erro' = R.erro /\ lanc' = R.lanc /\ i' = R.i
    /\ restantes' = R.restantes /\ linhas' = R.linhas /\ ultimo' = R.ultimo
    /\ resultado' = R.resultado /\ lotes' = R.lotes /\ retorno' = R.retorno
    /\ UNCHANGED <<df_extrato, df_lancamentos, config, conta_banco>>
    /\ UNCHANGED vars_cadastro

\* before conciliar runs its first statement
InicioConciliar ==
    /\ pc = "inicio" /\ erro = "" /\ lanc = <<>> /\ i = 0 /\ restantes = <<>>
    /\ linhas = <<>> /\ ultimo = SemLote /\ resultado = <<>> /\ lotes = <<>>
    /\ retorno = <<>>

\* an empty data directory and the module just imported
InicioCadastro ==
    /\ arquivos = [e \in Empresas |-> <<>>] /\ pastas = {}
    /\ default_atual = DEFAULT_CADASTRO /\ chamada = SemChamada
    /\ excecao = "" /\ devolvido = <<>> /\ chamadas = 0

Init ==
    /\ InitCasamento \/ InitPartidas \/ InitCliente
    /\ InicioConciliar
    /\ InicioCadastro

Preprocessa == pc = "inicio" /\ Passa(preprocessa(Atual, df_lancamentos))

PassoExtrato ==
    /\ pc = "extrato" /\ i < Len(df_extrato)
    /\ Passa(passo_extrato(Atual, df_extrato, config, conta_banco))

FimExtrato == pc = "extrato" /\ i = Len(df_extrato) /\ Passa(fim_extrato(Atual))

PassoRestante ==
    /\ pc = "restantes" /\ restantes # <<>>
    /\ Passa(passo_restante(Atual, config, conta_banco))

Retorna == pc = "restantes" /\ restantes = <<>> /\ Passa(retorna(Atual))

Next == Preprocessa \/ PassoExtrato \/ FimExtrato \/ PassoRestante \/ Retorna

Spec == Init /\ [][Next]_vars

-----------------------------------------------------------------------------
(* The registry: up to MaxChamadas calls of the functions of cadastro.py,  *)
(* with any arguments, starting from an empty data directory.              *)

Mundo ==
    [arquivos |-> arquivos, pastas |-> pastas, padrao |-> default_atual,
     excecao |-> "", devolvido |-> <<>>]

Chama(op, cnpj, nome, chave, valor, W) ==
    /\ chamadas < MaxChamadas
    /\ chamadas' = chamadas + 1
    /\ chamada' = [op |-> op, cnpj |-> cnpj, nome |-> nome, chave |-> chave,
                   valor |-> valor]
    /\ arquivos' = W.arquivos /\ pastas' = W.pastas /\ default_atual' = W.padrao
    /\ excecao' = W.excecao /\ devolvido' = W.devolvido
    /\ UNCHANGED vars_conciliar

AddItem ==
    \E cnpj \in Empresas, categoria \in CategoriasChamadas,
       chave \in ChavesChamadas, valor \in CodigosChamados :
        Chama("add_item", cnpj, categoria, chave, valor,
              add_item(Mundo, cnpj, categoria, chave, valor))

EditItem ==
    \E cnpj \in Empresas, categoria \in CategoriasChamadas,
       chave \in ChavesChamadas, valor \in CodigosChamados :
        Chama("edit_item", cnpj, categoria, chave, valor,
              edit_item(Mundo, cnpj, categoria, chave, valor))

DeleteItem ==
    \E cnpj \in Empresas, categoria \in CategoriasChamadas,
       chave \in ChavesChamadas :
        Chama("delete_item", cnpj, categoria, chave, 0,
              delete_item(Mundo, cnpj, categoria, chave))

SetContaEspecial ==
    \E cnpj \in Empresas, campo \in CamposChamados :
        Chama("set_conta_especial", cnpj, campo, <<>>, 99,
              set_conta_especial(Mundo, cnpj, campo, 99))

LoadCadastros ==
    \E cnpj \in Empresas :
        Chama("load_cadastros", cnpj, "", <<>>, 0, carrega(Mundo, cnpj))

InitCadastro ==
    /\ InicioCadastro
    /\ InicioConciliar
    /\ df_extrato = <<>> /\ df_lancamentos = <<>>
    /\ config = DEFAULT_CADASTRO /\ conta_banco = <<>>

NextCadastro == AddItem \/ EditItem \/ DeleteItem \/ SetContaEspecial \/ LoadCadastros

SpecCadastro == InitCadastro /\ [][NextCadastro]_vars

-----------------------------------------------------------------------------
(* Properties.  The helpers below read the inputs and the output directly. *)

LinhasDoLote(b) == SubSeq(resultado, b.ini, b.ini + b.n - 1)

\* the batches are consecutive and cover resultado exactly
LotesCobrem ==
    /\ \A k \in 1..Len(lotes) :
          lotes[k].ini = IF k = 1 THEN 1 ELSE lotes[k - 1].ini + lotes[k - 1].n
    /\ Len(resultado) =
          IF lotes = <<>> THEN 0 ELSE lotes[Len(lotes)].ini + lotes[Len(lotes)].n - 1

\* cents on the lines of rows that carry an account on side lado
RECURSIVE TotalLado(_, _)
TotalLado(rows, lado) ==
    IF rows = <<>> THEN 0
    ELSE (IF Head(rows)[lado] # <<>> THEN parse_valor(Head(rows).Valor).c ELSE 0)
         + TotalLado(Tail(rows), lado)

Fecha(rows) ==
    /\ \A k \in 1..Len(rows) :
          (rows[k].Debito # <<>> \/ rows[k].Credito # <<>>)
              => ~parse_valor(rows[k].Valor).nan
    /\ TotalLado(rows, "Debito") = TotalLado(rows, "Credito")

DescLote(b) == [origem |-> b.origem, ext |-> b.ext, lanc |-> b.lanc]

DataExtrato(k) == fmt_data(df_extrato[k].Data)

ValorExtrato(k) == parse_valor_extrato(df_extrato[k].Valor).num

Sufixo(v) == LET s == strip(str(v)) IN IF s = <<>> THEN "" ELSE s[Len(s)]

\* C1: in every output, each batch has equal totals, to the cent, on the
\* lines that carry a debit account and on the lines that carry a credit
\* account; the returned table is that output.
C1_Balance ==
    /\ LotesCobrem
    /\ \A k \in 1..Len(lotes) : Fecha(LinhasDoLote(lotes[k]))
    /\ retorno # <<>> => retorno[1] = resultado

\* a returned table holding a five-line batch of 87,00 on each side
C1_Witness ==
    /\ pc = "fim"
    /\ \E k \in 1..Len(lotes) :
          /\ lotes[k].n = 5
          /\ TotalLado(LinhasDoLote(lotes[k]), "Debito") = 8700
          /\ TotalLado(LinhasDoLote(lotes[k]), "Credito") = 8700

SemReuso ==
    \A a, b \in 1..Len(lotes) :
        (a # b /\ lotes[a].lanc # 0) => lotes[a].lanc # lotes[b].lanc

\* C2: a ledger row's matched flag starts false and is never reset; a
\* statement row only selects a row whose flag is false and sets it; a row
\* posted as a cash batch has its flag false; no ledger row is in two batches.
C2_MatchedOnce ==
    [][ /\ pc = "inicio" => \A k \in DOMAIN lanc' : ~lanc'[k].matched
        /\ \A k \in DOMAIN lanc : lanc[k].matched => lanc'[k].matched
        /\ (pc = "extrato" /\ i' = i + 1 /\ ultimo'.ext = i' /\ ultimo'.origem = "Banco")
              => ~lanc[ultimo'.lanc].matched /\ lanc'[ultimo'.lanc].matched
        /\ (pc = "restantes" /\ restantes' # restantes)
              => ultimo'.origem = "Caixa" /\ ~lanc'[ultimo'.lanc].matched
        /\ SemReuso' ]_vars

\* two statement rows of the same date and amount: the first took the ledger
\* row, the second was posted without one
C2_Witness ==
    \E a, b \in 1..Len(lotes) :
        /\ a < b /\ lotes[a].origem = "Banco" /\ lotes[b].origem = "Extrato"
        /\ DataExtrato(lotes[a].ext) = DataExtrato(lotes[b].ext)
        /\ ValorExtrato(lotes[a].ext) = ValorExtrato(lotes[b].ext)

\* C3: a batch is checked after it is built and before it is appended: a
\* batch that fails the check is never in the output, the run ends with the
\* unbalanced-batch error and no table is returned; a run that ended with an
\* error returned nothing, whatever was accepted before.
C3_AbortaSemSaida ==
    /\ LotesCobrem
    /\ pc = "erro" => retorno = <<>>
    /\ erro = "partidas" => pc = "erro" /\ ~Fecha(linhas)
    /\ ultimo # SemLote =>
          IF Fecha(linhas)
          THEN /\ erro # "partidas" /\ lotes # <<>>
               /\ DescLote(lotes[Len(lotes)]) = ultimo
               /\ LinhasDoLote(lotes[Len(lotes)]) = linhas
          ELSE /\ pc = "erro" /\ erro = "partidas" /\ retorno = <<>>
               /\ \A k \in 1..Len(lotes) : DescLote(lotes[k]) # ultimo

\* the run failed on an unbalanced batch after another batch was accepted
C3_Witness ==
    /\ pc = "erro" /\ erro = "partidas" /\ retorno = <<>>
    /\ lotes # <<>> /\ resultado # <<>>

Candidatos(k) ==
    {m \in 1..Len(lanc) :
        /\ fmt_data(df_lancamentos[m].DataPagamento) = DataExtrato(k)
        /\ feq(parse_valor(df_lancamentos[m].ValorPagar), ValorExtrato(k))
        /\ ~lanc[m].matched}

Menor(S) == CHOOSE x \in S : \A y \in S : x <= y

\* C5: statement rows are taken in input order; a debit row takes the first
\* candidate in ledger order and is posted with it as a matched case, or is
\* posted as an unmatched statement when there is no candidate; batches
\* already accepted are never changed.
C5_PrimeiroCandidato ==
    [][ /\ (pc = "extrato" /\ i < Len(df_extrato)
            /\ Sufixo(df_extrato[i + 1].Valor) \in {"D", "d"}
            /\ ValorExtrato(i + 1).ok)
              => /\ i' = i + 1
                 /\ IF Candidatos(i + 1) # {}
                    THEN /\ ultimo' = [origem |-> "Banco", ext |-> i + 1,
                                       lanc |-> Menor(Candidatos(i + 1))]
                         /\ lanc' = [lanc EXCEPT
                                       ![Menor(Candidatos(i + 1))].matched = TRUE]
                    ELSE /\ ultimo' = [origem |-> "Extrato", ext |-> i + 1, lanc |-> 0]
                         /\ lanc' = lanc
                 /\ pc' # "erro" => /\ lotes' # <<>>
                                    /\ DescLote(lotes'[Len(lotes')]) = ultimo'
        /\ \A k \in 1..Len(lotes) : k <= Len(lotes') /\ lotes'[k] = lotes[k] ]_vars

\* two ledger rows were candidates of one statement row: the first is matched
\* and in a matched batch, the second is not
C5_Witness ==
    /\ Len(lanc) = 2
    /\ lanc[1].data = lanc[2].data /\ feq(lanc[1].valor_pagar, lanc[2].valor_pagar)
    /\ lanc[1].matched /\ ~lanc[2].matched
    /\ \E b \in 1..Len(lotes) : lotes[b].origem = "Banco" /\ lotes[b].lanc = 1

\* an account code as a cell of the output: the code 0 is no account
Cod(n) == IF n = 0 THEN <<>> ELSE <<n>>

ContaFornEsperada(nome) ==
    IF "fornecedores" \in DOMAIN config /\ nome \in DOMAIN config["fornecedores"]
    THEN config["fornecedores"][nome]
    ELSE 5

BancoEmUso ==
    IF conta_banco # <<>> /\ conta_banco[1] # 0 THEN conta_banco[1]
    ELSE IF "contas_pagamento" \in DOMAIN config /\ config["contas_pagamento"] # <<>>
         THEN config["contas_pagamento"][1][2]
         ELSE 0

ContaDoCampo(chave, padrao) == IF chave \in DOMAIN config THEN config[chave] ELSE padrao

Positivo(celula) == gt0(parse_valor(celula))

ExtrasZero(raw) ==
    /\ parse_valor(raw.MultaJuros) = Num(0)
    /\ parse_valor(raw.Descontos) = Num(0)
    /\ parse_valor(raw.Tarifas) = Num(0)

AlgumExtra(raw) ==
    Positivo(raw.MultaJuros) \/ Positivo(raw.Descontos) \/ Positivo(raw.Tarifas)

\* rows is the list of lines esp, each [v: amount, d: debit cell, c: credit cell]
Confere(rows, esp, origem) ==
    /\ Len(rows) = Len(esp)
    /\ \A k \in 1..Len(esp) :
          /\ parse_valor(rows[k].Valor) = esp[k].v
          /\ rows[k].Debito = esp[k].d /\ rows[k].Credito = esp[k].c
          /\ rows[k].tipo = origem

\* the lines of a composite batch up to its closing line
Decomposicao(raw) ==
    <<[v |-> parse_valor(raw.Valor), d |-> Cod(ContaFornEsperada(raw.Fornecedor)),
       c |-> <<>>]>>
    \o (IF Positivo(raw.MultaJuros)
        THEN <<[v |-> parse_valor(raw.MultaJuros),
                d |-> Cod(ContaDoCampo("multas_juros", 0)), c |-> <<>>]>>
        ELSE <<>>)
    \o (IF Positivo(raw.Tarifas)
        THEN <<[v |-> parse_valor(raw.Tarifas),
                d |-> Cod(ContaDoCampo("tarifas", 316)), c |-> <<>>]>>
        ELSE <<>>)
    \o (IF Positivo(raw.Descontos)
        THEN <<[v |-> parse_valor(raw.Descontos), d |-> <<>>,
                c |-> Cod(ContaDoCampo("descontos", 0))]>>
        ELSE <<>>)

C7_InicioDeLote ==
    \A k \in 1..Len(lotes) :
        LET L == LinhasDoLote(lotes[k])
        IN  /\ Len(L) > 1 => /\ L[1].IniciaLote = "1"
                             /\ \A m \in 2..Len(L) : L[m].IniciaLote = ""
            /\ Len(L) = 1 => L[1].IniciaLote = ""

\* C7, amended: every batch, of one line or of several, is flagged on its
\* first line and on no other line.
C7_PrimeiraLinhaMarcada ==
    \A k \in 1..Len(lotes) :
        LET L == LinhasDoLote(lotes[k])
        IN  /\ L[1].IniciaLote = "1"
            /\ \A m \in 2..Len(L) : L[m].IniciaLote = ""

\* a returned table with a flagged single-line batch and a composite batch
C7_Witness ==
    /\ pc = "fim"
    /\ \E a, b \in 1..Len(lotes) :
          /\ lotes[a].n = 1 /\ resultado[lotes[a].ini].IniciaLote = "1"
          /\ lotes[b].n > 1 /\ resultado[lotes[b].ini].IniciaLote = "1"
          /\ resultado[lotes[b].ini + 1].IniciaLote = ""

\* C8: the batch built for an unmatched ledger row with a nonzero extra is
\* the composite cash batch: gross to the supplier, fine, fee, discount, and
\* a closing credit of cash (5) for payable + fee; five lines when the three
\* extras are nonzero, the first flagged; and in a finished run every such
\* row has that batch in the output.
C8_CaixaComposto ==
    /\ (ultimo.origem = "Caixa" /\ AlgumExtra(df_lancamentos[ultimo.lanc])) =>
          LET raw == df_lancamentos[ultimo.lanc]
          IN  /\ Confere(linhas,
                         Decomposicao(raw)
                         \o <<[v |-> fadd(parse_valor(raw.ValorPagar),
                                          parse_valor(raw.Tarifas)),
                               d |-> <<>>, c |-> <<5>>]>>,
                         "Caixa")
              /\ linhas[1].IniciaLote = "1"
              /\ (Positivo(raw.MultaJuros) /\ Positivo(raw.Descontos)
                  /\ Positivo(raw.Tarifas)) => Len(linhas) = 5
    /\ pc = "fim" =>
          \A m \in 1..Len(lanc) :
              (~lanc[m].matched /\ AlgumExtra(df_lancamentos[m])) =>
                  \E b \in 1..Len(lotes) :
                      /\ lotes[b].origem = "Caixa" /\ lotes[b].lanc = m
                      /\ lotes[b].n = Len(Decomposicao(df_lancamentos[m])) + 1

\* scenario C: gross 80, fine 5, fee 2, discount 10, payable 75 returned as
\* five cash lines, 87,00 on each side
C8_Witness ==
    /\ pc = "fim"
    /\ \E b \in 1..Len(lotes) :
          LET L == LinhasDoLote(lotes[b])
          IN  /\ lotes[b].origem = "Caixa" /\ Len(L) = 5
              /\ L[1].Valor = V80 /\ L[2].Valor = V5 /\ L[3].Valor = V2
              /\ L[4].Valor = V10 /\ L[5].Valor = V77
              /\ L[5].Credito = <<5>> /\ L[1].IniciaLote = "1"
              /\ TotalLado(L, "Debito") = 8700 /\ TotalLado(L, "Credito") = 8700

\* C9: the batch built for a matched pair whose ledger row has a nonzero
\* extra is the composite bank batch: gross to the supplier, fine, fee,
\* discount, and a closing credit of the bank account for the amount of the
\* statement row.
C9_BancoComposto ==
    (ultimo.origem = "Banco" /\ AlgumExtra(df_lancamentos[ultimo.lanc])) =>
        Confere(linhas,
                Decomposicao(df_lancamentos[ultimo.lanc])
                \o <<[v |-> ValorExtrato(ultimo.ext), d |-> <<>>,
                      c |-> Cod(BancoEmUso)]>>,
                "Banco")

\* a matched pair with a fee: the closing line carries the statement amount,
\* which is not payable + fee
C9_Witness ==
    /\ ultimo.origem = "Banco"
    /\ Positivo(df_lancamentos[ultimo.lanc].Tarifas)
    /\ Positivo(df_lancamentos[ultimo.lanc].MultaJuros)
    /\ Positivo(df_lancamentos[ultimo.lanc].Descontos)
    /\ Len(linhas) = 5
    /\ parse_valor(linhas[5].Valor) = ValorExtrato(ultimo.ext)
    /\ linhas[5].Credito # <<>>

\* C10: a run in which a Discount, Fine or Fee cell is blank (empty, null or
\* "nan") ends as the run in which that cell is "0,00": same table or same
\* error.
C10_BrancoComoZero ==
    pc = "inicio" =>
        \A k \in 1..Len(df_lancamentos) :
            \A campo \in {"Descontos", "MultaJuros", "Tarifas"} :
                \A branco \in {<<>>, PyNone, TextoNaN} :
                    conciliar(df_extrato,
                              [df_lancamentos EXCEPT ![k][campo] = branco],
                              config, conta_banco)
                    = conciliar(df_extrato,
                                [df_lancamentos EXCEPT ![k][campo] = V0],
                                config, conta_banco)

\* the configuration without the keys of S
sem_chaves(cfg, S) == [k \in DOMAIN cfg \ S |-> cfg[k]]

ChavesDeContas == {"fornecedores", "tarifas", "multas_juros", "descontos"}

Completa(cfg) == conciliar(df_extrato, df_lancamentos, cfg, conta_banco).erro = ""

\* C11: no run fails because a configuration key is absent: in the batch
\* built for a ledger row, a supplier that is not in config['fornecedores']
\* is debited on account 5, the fee line is debited on 316 when 'tarifas' is
\* absent, the fine and discount lines carry account 0 (no account) when
\* 'multas_juros' or 'descontos' is absent; and a run that completes with
\* those keys present also completes with any of them taken away.
C11_ChaveAusente ==
    /\ (ultimo.lanc # 0) =>
          LET raw == df_lancamentos[ultimo.lanc]
              esp == IF AlgumExtra(raw) THEN Decomposicao(raw)
                     ELSE <<[d |-> Cod(ContaFornEsperada(raw.Fornecedor))]>>
          IN  \A k \in 1..Len(esp) :
                  /\ linhas[k].Debito = esp[k].d
                  /\ AlgumExtra(raw) => linhas[k].Credito = esp[k].c
    /\ pc = "inicio" =>
          \A S \in SUBSET ChavesDeContas :
              Completa(config) => Completa(sem_chaves(config, S))

\* C12: in a finished run, every statement row with suffix C whose text is a
\* key of config['clientes'] has two consecutive output lines with its
\* amount: the first debits the bank account, the second credits the account
\* of that client.
C12_EntradaCliente ==
    pc = "fim" =>
        \A k \in 1..Len(df_extrato) :
            (/\ Sufixo(df_extrato[k].Valor) = "C"
             /\ "clientes" \in DOMAIN config
             /\ df_extrato[k].Historico \in DOMAIN config["clientes"])
                => \E m \in 1..(Len(resultado) - 1) :
                      /\ resultado[m].Debito = Cod(BancoEmUso)
                      /\ parse_valor(resultado[m].Valor) = ValorExtrato(k)
                      /\ resultado[m + 1].Credito
                            = Cod(config["clientes"][df_extrato[k].Historico])
                      /\ parse_valor(resultado[m + 1].Valor) = ValorExtrato(k)

\* C13: the batch built for a matched pair whose ledger row has zero fine,
\* discount and fee is two lines: the first debits the supplier's configured
\* account for the payable amount, with historical code 34 and complement
\* "<invoice digits> <supplier name>"; the second credits the bank account.
C13_CasadoDuasLinhas ==
    (ultimo.origem = "Banco" /\ ExtrasZero(df_lancamentos[ultimo.lanc])) =>
        LET raw == df_lancamentos[ultimo.lanc]
        IN  /\ Len(linhas) = 2
            /\ linhas[1].Debito = Cod(ContaFornEsperada(raw.Fornecedor))
            /\ linhas[1].Credito = <<>>
            /\ parse_valor(linhas[1].Valor) = parse_valor(raw.ValorPagar)
            /\ linhas[1].Historico = 34
            /\ linhas[1].Complemento
                  = strip(clean_nota(str(raw.NotaFiscal)) \o <<" ">> \o raw.Fornecedor)
            /\ linhas[2].Debito = <<>>
            /\ linhas[2].Credito = Cod(BancoEmUso)

\* a call whose category, or special field, is not one of the valid ones
ChamadaInvalida(c) ==
    \/ /\ c.op \in {"add_item", "edit_item", "delete_item"}
       /\ c.nome \notin {"fornecedores", "contas_pagamento"}
    \/ /\ c.op = "set_conta_especial"
       /\ c.nome \notin {"multas_juros", "tarifas", "descontos"}

\* C14: a call of add_item, edit_item or delete_item with an invalid
\* category, or of set_conta_especial with an invalid field, raises
\* ValueError and leaves every company's file as it was: none created, none
\* rewritten, no directory made.
C14_ErrosValidacao ==
    [][ ChamadaInvalida(chamada')
            => /\ excecao' = "ValueError"
               /\ arquivos' = arquivos
               /\ pastas' = pastas ]_vars

\* an invalid call on a company that has no file yet, made after another
\* company's registry was filled: it raised and created nothing
C14_Witness ==
    /\ ChamadaInvalida(chamada) /\ excecao = "ValueError"
    /\ arquivos[chamada.cnpj] = <<>> /\ chamada.cnpj \notin pastas
    /\ \E e \in Empresas :
          /\ arquivos[e] # <<>>
          /\ arquivos[e][1]["fornecedores"] # dict_vazio

\* C18: a call of load_cadastros on a company that has no file, whatever was
\* called before, creates the file and returns the default registry: no
\* supplier, no payment account, the three special accounts 0; and no call
\* changes the file of a company other than the one it names, nor the
\* default structure.
C18_PadraoIsolado ==
    [][ /\ (chamada'.op = "load_cadastros" /\ arquivos[chamada'.cnpj] = <<>>)
              => /\ arquivos'[chamada'.cnpj] = <<DEFAULT_CADASTRO>>
                 /\ devolvido' = <<DEFAULT_CADASTRO>>
        /\ \A e \in Empresas \ {chamada'.cnpj} : arquivos'[e] = arquivos[e]
        /\ default_atual' = default_atual ]_vars

\* the indices 1..n that satisfy Sel, in increasing order
Indices(n, Sel(_)) == SelectSeq([k \in 1..n |-> k], Sel)

EhDebito(k) == Sufixo(df_extrato[k].Valor) \in {"D", "d"}

LinhasDebito == Indices(Len(df_extrato), EhDebito)

SemPar(m) == ~lanc[m].matched

LancSemPar == Indices(Len(lanc), SemPar)

DoExtrato(b) == lotes[b].origem \in {"Banco", "Extrato"}

\* C15: the batches of statement rows come first, in statement order, each
\* Banco or Extrato as its row was matched or not; the Caixa batches come
\* after them, in ledger order; no Caixa line precedes a Banco or Extrato
\* line; and a finished run has exactly one batch per debit statement row
\* followed by one per ledger row left unmatched.
C15_OrdemDosLotes ==
    /\ \A b \in 1..Len(lotes) :
          /\ lotes[b].origem \in {"Banco", "Extrato", "Caixa"}
          /\ DoExtrato(b) <=> lotes[b].ext # 0
          /\ \A m \in 1..lotes[b].n :
                resultado[lotes[b].ini + m - 1].tipo = lotes[b].origem
    /\ \A a, b \in 1..Len(lotes) :
          a < b => /\ lotes[a].origem = "Caixa"
                        => lotes[b].origem = "Caixa" /\ lotes[a].lanc < lotes[b].lanc
                   /\ (DoExtrato(a) /\ DoExtrato(b)) => lotes[a].ext < lotes[b].ext
    /\ \A m, n \in 1..Len(resultado) :
          (m < n /\ resultado[m].tipo = "Caixa") => resultado[n].tipo = "Caixa"
    /\ pc = "fim" =>
          /\ Len(lotes) = Len(LinhasDebito) + Len(LancSemPar)
          /\ \A b \in 1..Len(LinhasDebito) : lotes[b].ext = LinhasDebito[b]
          /\ \A c \in 1..Len(LancSemPar) :
                /\ lotes[Len(LinhasDebito) + c].origem = "Caixa"
                /\ lotes[Len(LinhasDebito) + c].lanc = LancSemPar[c]

\* a returned table whose batches are Extrato, Banco, Caixa: the first
\* statement row found no ledger row, the second took ledger row 2, and
\* ledger row 1 went to cash
C15_Witness ==
    /\ pc = "fim" /\ Len(lotes) = 3
    /\ lotes[1].origem = "Extrato" /\ lotes[1].ext = 1
    /\ lotes[2].origem = "Banco" /\ lotes[2].ext = 2 /\ lotes[2].lanc = 2
    /\ lotes[3].origem = "Caixa" /\ lotes[3].lanc = 1

LotesDoExtrato(k) == {b \in 1..Len(lotes) : lotes[b].ext = k}

LotesDoLanc(m) == {b \in 1..Len(lotes) : lotes[b].lanc = m}

ParesCasados == {m \in 1..Len(lanc) : lanc[m].matched}

\* C17: in a finished run every debit statement row has exactly one batch,
\* a row that is not a debit has none, every ledger row is in exactly one
\* batch (the Banco batch of the statement row that took it when its flag is
\* set, its own Caixa batch otherwise), the batches cover the output, and
\* their number is debit rows + ledger rows - matched pairs.
C17_UmLotePorLinha ==
    pc = "fim" =>
        /\ LotesCobrem
        /\ Len(lanc) = Len(df_lancamentos)
        /\ \A k \in 1..Len(df_extrato) :
              Cardinality(LotesDoExtrato(k)) = IF EhDebito(k) THEN 1 ELSE 0
        /\ \A m \in 1..Len(lanc) :
              /\ Cardinality(LotesDoLanc(m)) = 1
              /\ \A b \in LotesDoLanc(m) :
                    /\ lotes[b].n >= 1
                    /\ lotes[b].origem = IF lanc[m].matched THEN "Banco" ELSE "Caixa"
        /\ \A b \in 1..Len(lotes) :
              lotes[b].origem = "Banco" => lotes[b].lanc \in ParesCasados
        /\ Len(lotes) = Len(LinhasDebito) + Len(df_lancamentos)
                        - Cardinality(ParesCasados)

\* two debit rows and two ledger rows with one matched pair: three batches
C17_Witness ==
    /\ pc = "fim"
    /\ Len(LinhasDebito) = 2 /\ Len(df_lancamentos) = 2
    /\ Cardinality(ParesCasados) = 1
    /\ Len(lotes) = 3

\* the five amounts of the row are numbers
Numerica(raw) ==
    \A campo \in {"Valor", "ValorPagar", "MultaJuros", "Descontos", "Tarifas"} :
        parse_valor(raw[campo]).ok /\ ~parse_valor(raw[campo]).nan

Centavos(celula) == parse_valor(celula).c

\* supplier, fine, fee, discount, bank and cash account codes all nonzero
ContasNaoNulas(raw) ==
    /\ ContaFornEsperada(raw.Fornecedor) # 0
    /\ ContaDoCampo("multas_juros", 0) # 0
    /\ ContaDoCampo("tarifas", 316) # 0
    /\ ContaDoCampo("descontos", 0) # 0
    /\ BancoEmUso # 0
    /\ CONTA_CAIXA # 0

\* gross + fine + fee = discount + statement amount for a matched row,
\* gross + fine = discount + payable amount for a row left unmatched
CondicaoDeFecho(raw, origem, ext) ==
    IF origem = "Banco"
    THEN Centavos(raw.Valor) + Centavos(raw.MultaJuros) + Centavos(raw.Tarifas)
            = Centavos(raw.Descontos) + ValorExtrato(ext).c
    ELSE Centavos(raw.Valor) + Centavos(raw.MultaJuros)
            = Centavos(raw.Descontos) + Centavos(raw.ValorPagar)

\* C16: for a ledger row whose amounts are numbers, with a nonzero fine,
\* discount or fee, under nonzero supplier, fine, fee, discount, bank and cash
\* accounts: its batch is accepted (appended as the last batch, no error)
\* when the condition of its case holds, and otherwise the run ends with the
\* unbalanced-batch error and the batch is not in the output.
C16_CondicaoDeFecho ==
    (/\ ultimo.lanc # 0
     /\ Numerica(df_lancamentos[ultimo.lanc])
     /\ AlgumExtra(df_lancamentos[ultimo.lanc])
     /\ ContasNaoNulas(df_lancamentos[ultimo.lanc]))
        => IF CondicaoDeFecho(df_lancamentos[ultimo.lanc], ultimo.origem, ultimo.ext)
           THEN /\ erro = "" /\ pc # "erro"
                /\ lotes # <<>> /\ DescLote(lotes[Len(lotes)]) = ultimo
                /\ LinhasDoLote(lotes[Len(lotes)]) = linhas
           ELSE /\ pc = "erro" /\ erro = "partidas" /\ retorno = <<>>
                /\ \A b \in 1..Len(lotes) : DescLote(lotes[b]) # ultimo

\* a matched row with fine and discount accepted: 80,00 + 5,00 = 10,00 + 75,00
C16_Witness ==
    /\ pc = "fim" /\ ultimo.origem = "Banco"
    /\ Numerica(df_lancamentos[ultimo.lanc])
    /\ ContasNaoNulas(df_lancamentos[ultimo.lanc])
    /\ Positivo(df_lancamentos[ultimo.lanc].MultaJuros)
    /\ Positivo(df_lancamentos[ultimo.lanc].Descontos)
    /\ CondicaoDeFecho(df_lancamentos[ultimo.lanc], "Banco", ultimo.ext)
    /\ Len(resultado) = 4

\* an unmatched row with a fee whose gross + fine differs from discount +
\* payable amount: the run raised
C16_WitnessRecusa ==
    /\ pc = "erro" /\ erro = "partidas" /\ ultimo.origem = "Caixa"
    /\ Numerica(df_lancamentos[ultimo.lanc])
    /\ ContasNaoNulas(df_lancamentos[ultimo.lanc])
    /\ Positivo(df_lancamentos[ultimo.lanc].Tarifas)
    /\ ~CondicaoDeFecho(df_lancamentos[ultimo.lanc], "Caixa", 0)

====
